---- MODULE Spec2Model ----
(***************************************************************************)
(* Two Telegram web-hook handlers of package handler.                      *)
(*   variant 1 : src/unnamed/part_000      (celebration rotation)          *)
(*   variant 2 : src/another_example.go    (geofenced treasure hunt)       *)
(* One invocation of HandleTelegramWebHook is modelled as a small process: *)
(* parse -> dispatch -> (loop) -> final log.  Every outbound HTTP call is  *)
(* recorded, with the outcome the environment chose for it, in calls.      *)
(*                                                                         *)
(* Conventions                                                             *)
(*  - Go strings that the code inspects character by character (message    *)
(*    text, callback payload) are sequences of one-character strings.      *)
(*  - Coordinates are integers in micro-degrees (1e-6 degree).             *)
(*  - Go's int is modelled with IntBits bits instead of 64, so that the    *)
(*    range error of strconv.Atoi is reachable with short payloads.        *)
(*  - The literal message texts (Russian in the source) are abbreviated    *)
(*    by ASCII tags; the text of a call is [msg, arg] where arg is the     *)
(*    formatted %d / %s argument of fmt.Sprintf, or <<>>.                  *)
(***************************************************************************)
EXTENDS Integers, Sequences, FiniteSets, TLC

(***************************** bounds **************************************)
\* longest phrase list explored (the compiled list has one phrase)
MaxPhrases == 3
\* width of the modelled Go int (64 in the deployed build)
IntBits == 8
\* how many button clicks are fed back into the variant-1 handler
MaxClicks == 4

(***************************** strings *************************************)
Upper == <<"A","B","C","D","E","F","G","H","I","J","K","L","M",
           "N","O","P","Q","R","S","T","U","V","W","X","Y","Z">>
Lower == <<"a","b","c","d","e","f","g","h","i","j","k","l","m",
           "n","o","p","q","r","s","t","u","v","w","x","y","z">>
Digits == <<"0","1","2","3","4","5","6","7","8","9">>

IsUpper(c) == \E i \in 1..26 : Upper[i] = c

\* unicode.ToLower on one character: the ASCII letters are mapped, every
\* other character of the texts tried is left as it is
ToLowerChar(c) ==
  IF IsUpper(c) THEN Lower[CHOOSE i \in 1..26 : Upper[i] = c] ELSE c

\* strings.ToLower
ToLower(s) == [i \in 1..Len(s) |-> ToLowerChar(s[i])]

\* a variant that leaves the text as it is
to_lower_letters_identity(s) == s

\* func to_lower_letters(s string) string
to_lower_letters(s) == ToLower(s)

IsDigit(c) == \E d \in 0..9 : Digits[d + 1] = c
DigitVal(c) == CHOOSE d \in 0..9 : Digits[d + 1] = c

MaxInt  == 2^(IntBits - 1) - 1
MinInt  == 0 - 2^(IntBits - 1)
MaxUint == 2^IntBits - 1

NoErr == "nil"

\* strconv.ParseUint(s, 10, IntBits), scanning from character i with
\* accumulated value n
RECURSIVE ParseUintFrom(_, _, _)
ParseUintFrom(s, i, n) ==
  IF i > Len(s) THEN [val |-> n, err |-> NoErr]
  ELSE IF ~IsDigit(s[i]) THEN [val |-> 0, err |-> "syntax"]
  ELSE IF n * 10 + DigitVal(s[i]) > MaxUint
         THEN [val |-> MaxUint, err |-> "range"]
  ELSE ParseUintFrom(s, i + 1, n * 10 + DigitVal(s[i]))

ParseUint(s) ==
  IF s = <<>> THEN [val |-> 0, err |-> "syntax"] ELSE ParseUintFrom(s, 1, 0)

\* strconv.ParseInt(s, 10, 0)
ParseInt(s) ==
  IF s = <<>> THEN [val |-> 0, err |-> "syntax"]
  ELSE LET neg  == s[1] = "-"
           rest == IF s[1] = "-" \/ s[1] = "+" THEN Tail(s) ELSE s
           un   == ParseUint(rest)
           cutoff == 2^(IntBits - 1)
       IN  IF un.err # NoErr /\ un.err # "range" THEN [val |-> 0, err |-> un.err]
           ELSE IF ~neg /\ un.val >= cutoff THEN [val |-> cutoff - 1, err |-> "range"]
           ELSE IF neg /\ un.val > cutoff THEN [val |-> 0 - cutoff, err |-> "range"]
           ELSE [val |-> IF neg THEN 0 - un.val ELSE un.val, err |-> NoErr]

\* strconv.Atoi: the fast path and the slow path return the same values
Atoi(s) == ParseInt(s)

\* strconv.Itoa
RECURSIVE Itoa(_)
Itoa(n) ==
  IF n < 0 THEN <<"-">> \o Itoa(0 - n)
  ELSE IF n < 10 THEN <<Digits[n + 1]>>
  ELSE Itoa(n \div 10) \o <<Digits[(n % 10) + 1]>>

(***************************** static data *********************************)
\* const ANTON_CHAT_ID int = 49208041
ANTON_CHAT_ID == 49208041

\* var ALLOWED_USERS of variant 1 and of variant 2
ALLOWED_USERS_1 == <<"antonhulikau", "okalitova", "maffina95">>
ALLOWED_USERS_2 == <<"antonhulikau", "sonicfelidae">>

\* var LOCATIONS (micro-degrees)
LOCATIONS == <<
  [Latitude |-> 48158967, Longitude |-> 11490981],
  [Latitude |-> 48155582, Longitude |-> 11493340],
  [Latitude |-> 48143296, Longitude |-> 11596526],
  [Latitude |-> 48173194, Longitude |-> 11555078],
  [Latitude |-> 48166302, Longitude |-> 11568141] >>

\* the geofence radius of the comparison Distance(...) < 2000, in metres
THRESHOLD == 2000

START  == <<"/","s","t","a","r","t">>
UNLOCK == <<"/","u","n","l","o","c","k">>
SECRET == <<"a","f","s","i","o">>

\* a gate that lets every username through
isAllowedAnyone(v, e) == TRUE

\* func isAllowed(e string) bool, over the allow-list of handler variant v
isAllowed(v, e) ==
  LET list == IF v = 1 THEN ALLOWED_USERS_1 ELSE ALLOWED_USERS_2
  IN  \E i \in 1..Len(list) : list[i] = e

(***************************** distance ************************************)
Abs(x) == IF x < 0 THEN 0 - x ELSE x

\* floor of the square root, by bisection on [lo, hi]
RECURSIVE SqrtBetween(_, _, _)
SqrtBetween(x, lo, hi) ==
  IF lo >= hi THEN lo
  ELSE LET mid == (lo + hi + 1) \div 2
       IN  IF mid * mid <= x THEN SqrtBetween(x, mid, hi)
                             ELSE SqrtBetween(x, lo, mid - 1)

Sqrt(x) == SqrtBetween(x, 0, 46340)

\* two points further apart than this (micro-degrees) in either coordinate
\* are "far": with a stored candidate as one of them (latitude about 48.15
\* degrees) their haversine distance is above 11 km
LocalSpan == 150000
\* the value Distance saturates to for far points, in metres
FarMeters == 11000

\* an angle in micro-degrees as radians * 10^4  (x * math.Pi / 180)
Radians4(x) == ((x \div 1000) * 17453) \div 100000

\* math.Cos of radians * 10^4, as cosine * 10^4 (Taylor series to x^8)
Cos4(x) ==
  LET x2 == (x * x) \div 10000
      x4 == (x2 * x2) \div 10000
      x6 == (x4 * x2) \div 10000
      x8 == (x6 * x2) \div 10000
  IN  10000 - (x2 \div 2) + (x4 \div 24) - (x6 \div 720) + (x8 \div 40320)

\* the arc of d micro-degrees on a sphere of radius r = 6378100 m, in metres
ArcMeters(d) == (Abs(d) * 11132) \div 100000

\* longitude difference reduced to [-180, 180) degrees (hsin is periodic)
WrapLon(d) == ((d + 180000000) % 360000000) - 180000000

\* func Distance(l1, l2 Location) float64, in whole metres.
\* For near points 2*r*asin(sqrt(h)) with
\*   h = hsin(la2-la1) + cos(la1)*cos(la2)*hsin(lo2-lo1)
\* is evaluated with hsin(t) = (t/2)^2 and asin(x) = x, which is exact to a
\* few metres inside LocalSpan (relative error below 10^-3).
Distance(l1, l2) ==
  LET dlat == l2.Latitude - l1.Latitude
      dlon == WrapLon(l2.Longitude - l1.Longitude)
  IN  IF Abs(dlat) > LocalSpan \/ Abs(dlon) > LocalSpan THEN FarMeters
      ELSE LET dy == ArcMeters(dlat)
               dx == ArcMeters(dlon)
               c1 == Cos4(Radians4(l1.Latitude))
               c2 == Cos4(Radians4(l2.Latitude))
           IN  Sqrt(dy * dy + ((dx * c1) \div 10000) * ((dx * c2) \div 10000))

(***************************** inbound updates *****************************)
ZeroLocation == [Latitude |-> 0, Longitude |-> 0]
ZeroMessage  == [Id |-> 0, Text |-> <<>>, Chat |-> [Id |-> 0, Username |-> ""],
                 Location |-> ZeroLocation]
ZeroCallback == [From |-> [Username |-> ""], Data |-> <<>>,
                 Message |-> [Id |-> 0, Chat |-> [Id |-> 0]]]
\* the zero value of type Update, what a body without any field decodes to
ZeroUpdate   == [UpdateId |-> 0, Message |-> ZeroMessage,
                 CallbackQuerry |-> ZeroCallback]

\* update_id 0 and 1 are combined with every other field, the further
\* identifiers with a few messages
UpdateIds == {0, 1}
OtherIds  == {7, 0 - 3}
\* chat identifiers of inbound messages
ChatIds == {42}

\* message texts tried on variant 2
Texts2 == { START, UNLOCK, SECRET,
            <<"A","F","S","I","O">>, <<"A","f","S","i","O">>,
            <<"/","S","T","A","R","T">>, <<"h","i">>, <<>> }

Usernames2 == {"antonhulikau", "sonicfelidae", "okalitova", "Antonhulikau", ""}

\* probe locations: on candidate 2, 2045 m west of candidate 2, 9 km away,
\* near the equator, the zero value (no location), and in the southern
\* hemisphere
Probes == { LOCATIONS[3],
            [Latitude |-> 48143296, Longitude |-> 11569000],
            [Latitude |-> 48100000, Longitude |-> 11400000],
            [Latitude |-> 1000000,  Longitude |-> 1000000],
            ZeroLocation,
            [Latitude |-> 0 - 48143296, Longitude |-> 11596526] }

\* probe locations with two candidates in range: on candidate 0 (candidate
\* 1 is 416 m away), and between candidates 2 and 4 (1660 m and 1657 m)
TwoHitProbes == { LOCATIONS[1],
                  [Latitude |-> 48154800, Longitude |-> 11582300] }

ClickCallback == [From |-> [Username |-> "antonhulikau"], Data |-> <<"0">>,
                  Message |-> [Id |-> 5, Chat |-> [Id |-> 42]]]

\* updates with a message; a few of them carry a callback as well
Updates2 ==
  { [UpdateId |-> id,
     Message  |-> [Id |-> 3, Text |-> txt,
                   Chat |-> [Id |-> c, Username |-> un],
                   Location |-> loc],
     CallbackQuerry |-> cb] :
       id \in UpdateIds, txt \in Texts2, un \in Usernames2, loc \in Probes,
       c \in ChatIds, cb \in {ZeroCallback} }
  \cup
  { [UpdateId |-> id,
     Message  |-> [Id |-> 3, Text |-> txt,
                   Chat |-> [Id |-> c, Username |-> un],
                   Location |-> loc],
     CallbackQuerry |-> ClickCallback] :
       id \in UpdateIds, txt \in {START, <<"h","i">>}, un \in Usernames2,
       loc \in {ZeroLocation, LOCATIONS[3]}, c \in ChatIds }
  \cup
  { [UpdateId |-> id,
     Message  |-> [Id |-> 3, Text |-> txt,
                   Chat |-> [Id |-> c, Username |-> un],
                   Location |-> ZeroLocation],
     CallbackQuerry |-> ZeroCallback] :
       id \in OtherIds, txt \in {START, SECRET}, un \in {"antonhulikau", ""},
       c \in ChatIds }
  \cup
  { [UpdateId |-> 1,
     Message  |-> [Id |-> 3, Text |-> txt,
                   Chat |-> [Id |-> c, Username |-> un],
                   Location |-> loc],
     CallbackQuerry |-> ZeroCallback] :
       txt \in {SECRET, <<"h","i">>}, un \in {"sonicfelidae", "okalitova"},
       loc \in TwoHitProbes, c \in ChatIds }
  \cup { [ZeroUpdate EXCEPT !.UpdateId = id] : id \in UpdateIds \cup OtherIds }
  \cup { [ZeroUpdate EXCEPT !.UpdateId = id, !.CallbackQuerry = ClickCallback] :
           id \in UpdateIds }

\* message texts, callback senders and callback payloads tried on variant 1
Texts1 == { START, <<"h","i">>, <<>> }
Usernames1 == {"antonhulikau", "okalitova", "maffina95", "sonicfelidae", ""}
Payloads == { <<>>, <<"0">>, <<"1">>, <<"2">>, <<"5">>, <<"-","1">>,
              <<"+","1">>, <<"a","b","c">>, <<"1","x">>, <<"-">>,
              <<"9","9","9">>, <<"-","9","9","9">>, <<"9","9","9","9","x">> }

Updates1 ==
  { [UpdateId |-> id,
     Message  |-> [ZeroMessage EXCEPT !.Text = txt, !.Chat.Id = c],
     CallbackQuerry |-> [From |-> [Username |-> un], Data |-> d,
                         Message |-> [Id |-> 5, Chat |-> [Id |-> c]]]] :
       id \in UpdateIds, txt \in Texts1, un \in Usernames1, d \in Payloads,
       c \in ChatIds }
  \cup
  { [UpdateId |-> id,
     Message  |-> [ZeroMessage EXCEPT !.Text = txt, !.Chat.Id = c],
     CallbackQuerry |-> [From |-> [Username |-> "maffina95"], Data |-> <<"0">>,
                         Message |-> [Id |-> 5, Chat |-> [Id |-> c]]]] :
       id \in OtherIds, txt \in Texts1, c \in ChatIds }

\* a request body: JSON that decodes to json, or bytes that do not decode
Bodies(v) ==
  { [wellformed |-> TRUE, json |-> u] : u \in (IF v = 1 THEN Updates1 ELSE Updates2) }
  \cup { [wellformed |-> FALSE, json |-> ZeroUpdate] }

\* phrase lists of every length up to MaxPhrases
AllPhrases == <<"phrase 0", "phrase 1", "phrase 2", "phrase 3", "phrase 4",
                "phrase 5">>
PhraseLists == { SubSeq(AllPhrases, 1, n) : n \in 1..MaxPhrases }

(***************************** outbound calls ******************************)
BodyOk   == "{ok:true}"
BodyFail == "{ok:false}"

\* what the network does to one http.PostForm and the ioutil.ReadAll after it
Outcomes ==
  { [post |-> "ok",  read |-> "ok",  body |-> BodyOk],
    [post |-> "ok",  read |-> "ok",  body |-> BodyFail],
    [post |-> "err", read |-> "ok",  body |-> ""],
    [post |-> "ok",  read |-> "err", body |-> "{ok:"] }

Failed(o) == o.post = "err" \/ o.read = "err"

Plain(m) == [msg |-> m, arg |-> <<>>]
NoText   == Plain("")

\* the (string, error) a sender returns: `return "", err` in both error
\* paths, where err is the error of http.PostForm
SenderReturn(o) ==
  LET err     == IF o.post = "ok" THEN NoErr ELSE "post error"
      errRead == IF o.read = "ok" THEN NoErr ELSE "read error"
  IN  IF err # NoErr THEN [body |-> "", err |-> err]
      ELSE IF errRead # NoErr THEN [body |-> "", err |-> err]
      ELSE [body |-> o.body, err |-> NoErr]

\* the log lines a sender writes
SenderLog(o) ==
  <<"sending">> \o
  ( IF o.post # "ok" THEN <<"error when posting">>
    ELSE IF o.read # "ok" THEN <<"error in parsing telegram answer">>
    ELSE <<"body of response">> )

\* the log line the handler writes after a call whose result it inspects
HandlerLog(ret) ==
  IF ret.err # NoErr THEN <<"got error from telegram">>
  ELSE <<"successfully distributed">>

Call(op, chatId, messageId, text, markup, loc, o) ==
  [op |-> op, chat_id |-> chatId, message_id |-> messageId, text |-> text,
   reply_markup |-> markup, latitude |-> loc.Latitude,
   longitude |-> loc.Longitude, outcome |-> o, ret |-> SenderReturn(o)]

\* func sendTextMessage(chatId int, text string) (string, error)
sendTextMessage(chatId, text, o) ==
  Call("sendMessage", chatId, 0, text, <<>>, ZeroLocation, o)

\* func sendLocationMessage(chatId int, l Location) (string, error)
sendLocationMessage(chatId, l, o) ==
  Call("sendLocation", chatId, 0, NoText, <<>>, l, o)

\* func sendStartTextMessage(chatId int, text string) (string, error)
sendStartTextMessage(chatId, text, o) ==
  Call("sendMessage", chatId, 0, text, <<"0">>, ZeroLocation, o)

\* a step that forgets to wrap around
NextIndexNoWrap(p, n) == p + 1

\* p += 1; if (p == len(CELEBRATIONS)) { p = 0 }
NextIndex(p, n) == IF p + 1 = n THEN 0 ELSE p + 1

\* func sendCelebrateMessage(chatId int, messageId int, p int), for an index
\* p inside the phrase list
sendCelebrateMessage(phrases, chatId, messageId, p, o) ==
  Call("editMessageText", chatId, messageId, Plain(phrases[p + 1]),
       Itoa(NextIndex(p, Len(phrases))), ZeroLocation, o)

(***************************** update parser *******************************)
\* a parser that does not look at the identifier
parseTelegramRequestAnyId(b) ==
  IF ~b.wellformed THEN [val |-> ZeroUpdate, err |-> "decode error"]
  ELSE [val |-> b.json, err |-> NoErr]

\* func parseTelegramRequest(r *http.Request) (*Update, error); val is the
\* Update behind the returned pointer (the zero Update stands for nil)
parseTelegramRequest(b) ==
  IF ~b.wellformed THEN [val |-> ZeroUpdate, err |-> "decode error"]
  ELSE IF b.json.UpdateId = 0
         THEN [val |-> ZeroUpdate, err |-> "invalid update id"]
  ELSE [val |-> b.json, err |-> NoErr]

(***************************** dispatch ************************************)
\* the branch of variant 1's if / else-if chain that an update takes
Branch1(u) ==
  IF u.Message.Text = START THEN "start"
  ELSE IF isAllowed(1, u.CallbackQuerry.From.Username) THEN "celebrate"
  ELSE "none"

\* the branch of variant 2's gate and if / else-if chain that an update takes
Branch2(u) ==
  IF ~isAllowed(2, u.Message.Chat.Username) THEN "reject"
  ELSE IF u.Message.Text = START THEN "start"
  ELSE IF u.Message.Text = UNLOCK THEN "unlock"
  ELSE IF to_lower_letters(u.Message.Text) = SECRET THEN "secret"
  ELSE IF u.Message.Location.Latitude > 0 THEN "location"
  ELSE "wrong"

\* the two calls of the /start branch where a failed first call cancels the
\* second
StartCalls2AbortOnFailure(u, o1, o2) ==
  IF Failed(o1)
    THEN << sendTextMessage(u.Message.Chat.Id, Plain("send me your location"), o1) >>
    ELSE << sendTextMessage(u.Message.Chat.Id, Plain("send me your location"), o1),
            sendTextMessage(ANTON_CHAT_ID, Plain("search has begun"), o2) >>

\* the /start branch without the supervisor notification
StartCalls2UserOnly(u, o1, o2) ==
  << sendTextMessage(u.Message.Chat.Id, Plain("send me your location"), o1) >>

\* the calls of variant 2's /start branch
StartCalls2(u, o1, o2) ==
  << sendTextMessage(u.Message.Chat.Id, Plain("send me your location"), o1),
     sendTextMessage(ANTON_CHAT_ID, Plain("search has begun"), o2) >>

\* a loop that stops at the first candidate in range
LoopNextBreak(t, inRange) == IF inRange THEN Len(LOCATIONS) ELSE t + 1

\* the index the range loop over LOCATIONS visits after index t
LoopNext(t, inRange) == t + 1

(***************************** state ***************************************)
VARIABLES
  variant,       \* which handler is deployed: 1 or 2
  CELEBRATIONS,  \* the phrase list of variant 1
  body,          \* body[r]   : the request body of invocation r
  update,        \* update[r] : result of parseTelegramRequest, or pending
  pc,            \* pc[r]     : where invocation r is
  calls,         \* calls[r]  : outbound calls attempted so far, in order
  log,           \* log[r]    : log lines written so far
  loop,          \* loop[r]   : index t and flag found of the range loop
  trail          \* trail[r]  : button indices of the click chain so far

vars == <<variant, CELEBRATIONS, body, update, pc, calls, log, loop, trail>>

Invocations == {1}

Init ==
  /\ variant \in {1, 2}
  /\ CELEBRATIONS \in (IF variant = 1 THEN PhraseLists ELSE {SubSeq(AllPhrases, 1, 1)})
  /\ body \in [Invocations -> Bodies(variant)]
  /\ update = [r \in Invocations |-> [val |-> ZeroUpdate, err |-> "pending"]]
  /\ pc = [r \in Invocations |-> "parse"]
  /\ calls = [r \in Invocations |-> <<>>]
  /\ log = [r \in Invocations |-> <<>>]
  /\ loop = [r \in Invocations |-> [t |-> 0, found |-> FALSE]]
  /\ trail = [r \in Invocations |-> <<>>]

\* every invocation reads one process-wide update, that of invocation 1
UShared(r) == update[1].val

\* the Update behind the local pointer `update` of invocation r
U(r) == update[r].val

\* var update, err = parseTelegramRequest(r); if err != nil { log; return }
ParseRequest(r) ==
  /\ pc[r] = "parse"
  /\ LET res == parseTelegramRequest(body[r])
     IN  /\ update' = [update EXCEPT ![r] = res]
         /\ IF res.err # NoErr
              THEN /\ log' = [log EXCEPT ![r] = @ \o <<"error parsing update">>]
                   /\ pc' = [pc EXCEPT ![r] = "done"]
              ELSE /\ log' = log
                   /\ pc' = [pc EXCEPT ![r] = "dispatch"]
  /\ UNCHANGED <<variant, CELEBRATIONS, body, calls, loop, trail>>

\* the invocation makes the calls cs, writes the lines ls and goes to label
Emit(r, cs, ls, label) ==
  /\ calls' = [calls EXCEPT ![r] = @ \o cs]
  /\ log' = [log EXCEPT ![r] = @ \o ls]
  /\ pc' = [pc EXCEPT ![r] = label]

(* ------------------------------ variant 2 ------------------------------ *)
\* if (!isAllowed(update.Message.Chat.Username)) { return }
Reject(r) ==
  /\ variant = 2 /\ pc[r] = "dispatch" /\ Branch2(U(r)) = "reject"
  /\ pc' = [pc EXCEPT ![r] = "done"]
  /\ UNCHANGED <<variant, CELEBRATIONS, body, update, calls, log, loop, trail>>

Start2(r) ==
  /\ variant = 2 /\ pc[r] = "dispatch" /\ Branch2(U(r)) = "start"
  /\ \E o1, o2 \in Outcomes :
       LET cs == StartCalls2(U(r), o1, o2)
       IN  Emit(r, cs,
                SenderLog(o1)
                  \o (IF Len(cs) > 1 THEN SenderLog(o2) ELSE <<>>)
                  \o HandlerLog(cs[1].ret),
                "final")
  /\ UNCHANGED <<variant, CELEBRATIONS, body, update, loop, trail>>

Unlock(r) ==
  /\ variant = 2 /\ pc[r] = "dispatch" /\ Branch2(U(r)) = "unlock"
  /\ \E o1 \in Outcomes :
       LET c1 == sendTextMessage(U(r).Message.Chat.Id, Plain("password?"), o1)
       IN  Emit(r, <<c1>>, SenderLog(o1) \o HandlerLog(c1.ret), "final")
  /\ UNCHANGED <<variant, CELEBRATIONS, body, update, loop, trail>>

Secret(r) ==
  /\ variant = 2 /\ pc[r] = "dispatch" /\ Branch2(U(r)) = "secret"
  /\ \E o1, o2 \in Outcomes :
       LET c1 == sendTextMessage(U(r).Message.Chat.Id, Plain("well done, your prize"), o1)
           c2 == sendTextMessage(ANTON_CHAT_ID, Plain("she made it"), o2)
       IN  Emit(r, <<c1, c2>>,
                SenderLog(o1) \o SenderLog(o2)
                  \o HandlerLog(c1.ret) \o HandlerLog(c2.ret),
                "final")
  /\ UNCHANGED <<variant, CELEBRATIONS, body, update, loop, trail>>

\* found := false; for t, l := range LOCATIONS
EnterLoop(r) ==
  /\ variant = 2 /\ pc[r] = "dispatch" /\ Branch2(U(r)) = "location"
  /\ loop' = [loop EXCEPT ![r] = [t |-> 0, found |-> FALSE]]
  /\ pc' = [pc EXCEPT ![r] = "loop"]
  /\ UNCHANGED <<variant, CELEBRATIONS, body, update, calls, log, trail>>

\* one iteration of the range loop, on candidate t
LoopIter(r) ==
  /\ variant = 2 /\ pc[r] = "loop" /\ loop[r].t < Len(LOCATIONS)
  /\ LET t == loop[r].t
         l == LOCATIONS[t + 1]
         inRange == Distance(l, U(r).Message.Location) < THRESHOLD
     IN  IF inRange
           THEN \E o1, o2, o3 \in Outcomes :
                  LET c1 == sendTextMessage(U(r).Message.Chat.Id, Plain("check this place"), o1)
                      c2 == sendTextMessage(ANTON_CHAT_ID,
                                            [msg |-> "she checks %d", arg |-> Itoa(t)], o2)
                      c3 == sendLocationMessage(U(r).Message.Chat.Id, l, o3)
                  IN  /\ Emit(r, <<c1, c2, c3>>,
                              SenderLog(o1) \o SenderLog(o2) \o HandlerLog(c1.ret)
                                \o SenderLog(o3) \o HandlerLog(c3.ret),
                              "loop")
                      /\ loop' = [loop EXCEPT ![r] = [t |-> LoopNext(t, TRUE), found |-> TRUE]]
           ELSE /\ loop' = [loop EXCEPT ![r].t = LoopNext(t, FALSE)]
                /\ UNCHANGED <<calls, log, pc>>
  /\ UNCHANGED <<variant, CELEBRATIONS, body, update, trail>>

\* after the loop: if (!found) { send "no hints nearby" }
LoopExit(r) ==
  /\ variant = 2 /\ pc[r] = "loop" /\ loop[r].t >= Len(LOCATIONS)
  /\ IF ~loop[r].found
       THEN \E o1 \in Outcomes :
              LET c1 == sendTextMessage(U(r).Message.Chat.Id, Plain("no hints nearby"), o1)
              IN  Emit(r, <<c1>>, SenderLog(o1) \o HandlerLog(c1.ret), "final")
       ELSE Emit(r, <<>>, <<>>, "final")
  /\ UNCHANGED <<variant, CELEBRATIONS, body, update, loop, trail>>

Wrong(r) ==
  /\ variant = 2 /\ pc[r] = "dispatch" /\ Branch2(U(r)) = "wrong"
  /\ \E o1, o2 \in Outcomes :
       LET c1 == sendTextMessage(U(r).Message.Chat.Id, Plain("wrong password"), o1)
           c2 == sendTextMessage(ANTON_CHAT_ID,
                                 [msg |-> "she entered %s", arg |-> U(r).Message.Text], o2)
       IN  Emit(r, <<c1, c2>>,
                SenderLog(o1) \o SenderLog(o2) \o HandlerLog(c1.ret), "final")
  /\ UNCHANGED <<variant, CELEBRATIONS, body, update, loop, trail>>

(* ------------------------------ variant 1 ------------------------------ *)
Start1(r) ==
  /\ variant = 1 /\ pc[r] = "dispatch" /\ Branch1(U(r)) = "start"
  /\ \E o1 \in Outcomes :
       LET c1 == sendStartTextMessage(U(r).Message.Chat.Id, Plain("hi, press the button"), o1)
       IN  Emit(r, <<c1>>, SenderLog(o1) \o HandlerLog(c1.ret), "final")
  /\ UNCHANGED <<variant, CELEBRATIONS, body, update, loop, trail>>

\* p, _ := strconv.Atoi(update.CallbackQuerry.Data); sendCelebrateMessage(..., p)
\* text := CELEBRATIONS[p] panics at run time for an index outside the list
Celebrate(r) ==
  /\ variant = 1 /\ pc[r] = "dispatch" /\ Branch1(U(r)) = "celebrate"
  /\ LET p == Atoi(U(r).CallbackQuerry.Data).val
     IN  IF p < 0 \/ p >= Len(CELEBRATIONS)
           THEN /\ Emit(r, <<>>, <<"sending">>, "panic")
                /\ trail' = trail
           ELSE \E o1 \in Outcomes :
                  LET c1 == sendCelebrateMessage(CELEBRATIONS,
                                                 U(r).CallbackQuerry.Message.Chat.Id,
                                                 U(r).CallbackQuerry.Message.Id, p, o1)
                      nxt == Atoi(c1.reply_markup).val
                  IN  /\ Emit(r, <<c1>>, SenderLog(o1) \o HandlerLog(c1.ret), "final")
                      /\ trail' = [trail EXCEPT ![r] =
                                     IF @ = <<>> THEN <<p, nxt>> ELSE Append(@, nxt)]
  /\ UNCHANGED <<variant, CELEBRATIONS, body, update, loop>>

\* neither /start nor a callback of an allowed user: nothing is sent
Ignore1(r) ==
  /\ variant = 1 /\ pc[r] = "dispatch" /\ Branch1(U(r)) = "none"
  /\ pc' = [pc EXCEPT ![r] = "final"]
  /\ UNCHANGED <<variant, CELEBRATIONS, body, update, calls, log, loop, trail>>

\* log.Printf("Update new is %s", update), the last statement of both handlers
FinalLog(r) ==
  /\ pc[r] = "final"
  /\ log' = [log EXCEPT ![r] = @ \o <<"update new is">>]
  /\ pc' = [pc EXCEPT ![r] = "done"]
  /\ UNCHANGED <<variant, CELEBRATIONS, body, update, calls, loop, trail>>

\* who presses the button of a delivered message
Clickers == {"okalitova", "stranger"}

\* a call reached the platform and was carried out
Delivered(c) == c.outcome.post = "ok" /\ c.outcome.body # BodyFail

\* The platform turns a click on the button of the message the last
\* invocation sent or edited into the next update: its callback payload is
\* the callback_data of that button.
Click(r) ==
  /\ variant = 1 /\ pc[r] = "done" /\ calls[r] # <<>>
  /\ Len(trail[r]) <= MaxClicks
  /\ LET last == calls[r][Len(calls[r])]
     IN  /\ last.reply_markup # <<>>
         /\ Delivered(last)
         /\ \E un \in Clickers :
              body' = [body EXCEPT ![r] =
                [wellformed |-> TRUE,
                 json |-> [UpdateId |-> U(r).UpdateId,
                           Message |-> ZeroMessage,
                           CallbackQuerry |->
                             [From |-> [Username |-> un],
                              Data |-> last.reply_markup,
                              Message |-> [Id |-> 5, Chat |-> [Id |-> last.chat_id]]]]]]
  /\ update' = [update EXCEPT ![r] = [val |-> ZeroUpdate, err |-> "pending"]]
  /\ pc' = [pc EXCEPT ![r] = "parse"]
  /\ calls' = [calls EXCEPT ![r] = <<>>]
  /\ log' = [log EXCEPT ![r] = <<>>]
  /\ UNCHANGED <<variant, CELEBRATIONS, loop, trail>>

Next ==
  \E r \in DOMAIN pc :
    \/ ParseRequest(r)
    \/ Reject(r)
    \/ Start2(r)
    \/ Unlock(r)
    \/ Secret(r)
    \/ EnterLoop(r)
    \/ LoopIter(r)
    \/ LoopExit(r)
    \/ Wrong(r)
    \/ Start1(r)
    \/ Celebrate(r)
    \/ Ignore1(r)
    \/ FinalLog(r)
    \/ Click(r)

Spec == Init /\ [][Next]_vars

(* ----------------------- concurrent invocations ------------------------ *)
\* The hosting trigger runs HandleTelegramWebHook on one goroutine per
\* request, so invocations of one process interleave at every step.

\* a message of chat c
MessageOf(c, un, txt, loc) ==
  [Id |-> 3, Text |-> txt, Chat |-> [Id |-> c, Username |-> un], Location |-> loc]

\* a click of user un on the button with payload d in chat c
CallbackOf(c, un, d) ==
  [From |-> [Username |-> un], Data |-> d,
   Message |-> [Id |-> 5, Chat |-> [Id |-> c]]]

\* the updates of the first of two concurrent requests: one per branch of
\* either handler, and one the parser rejects
ConcUpdatesA(v) ==
  IF v = 2
    THEN { [UpdateId |-> 1, Message |-> m, CallbackQuerry |-> ZeroCallback] :
             m \in { MessageOf(42, "antonhulikau", START, ZeroLocation),
                     MessageOf(42, "antonhulikau", UNLOCK, ZeroLocation),
                     MessageOf(42, "antonhulikau", <<"A","F","S","I","O">>, ZeroLocation),
                     MessageOf(42, "antonhulikau", <<"h","i">>, LOCATIONS[3]),
                     MessageOf(42, "antonhulikau", <<"h","i">>, ZeroLocation),
                     MessageOf(42, "okalitova", START, LOCATIONS[3]) } }
         \cup { ZeroUpdate }
    ELSE { [UpdateId |-> 1,
            Message |-> [ZeroMessage EXCEPT !.Text = START, !.Chat.Id = 42],
            CallbackQuerry |-> ZeroCallback],
           [UpdateId |-> 1, Message |-> ZeroMessage,
            CallbackQuerry |-> CallbackOf(42, "antonhulikau", <<"0">>)],
           [UpdateId |-> 1, Message |-> ZeroMessage,
            CallbackQuerry |-> CallbackOf(42, "sonicfelidae", <<"0">>)] }

\* the updates of the second request, from another chat
ConcUpdatesB(v) ==
  IF v = 2
    THEN { [UpdateId |-> 7, Message |-> m, CallbackQuerry |-> ZeroCallback] :
             m \in { MessageOf(43, "sonicfelidae", <<>>, LOCATIONS[3]),
                     MessageOf(43, "sonicfelidae", <<>>,
                               [Latitude |-> 48100000, Longitude |-> 11400000]),
                     MessageOf(43, "sonicfelidae", START, ZeroLocation) } }
    ELSE { [UpdateId |-> 7, Message |-> ZeroMessage,
            CallbackQuerry |-> CallbackOf(43, "okalitova", <<"1">>)],
           [UpdateId |-> 7, Message |-> ZeroMessage,
            CallbackQuerry |-> CallbackOf(43, "maffina95", <<"a","b","c">>)] }

ConcInvocations == {1, 2}

InitConc ==
  /\ variant \in {1, 2}
  /\ CELEBRATIONS \in (IF variant = 1 THEN PhraseLists ELSE {SubSeq(AllPhrases, 1, 1)})
  /\ \E a \in ConcUpdatesA(variant), b \in ConcUpdatesB(variant) :
       body = [r \in ConcInvocations |->
                 [wellformed |-> TRUE, json |-> IF r = 1 THEN a ELSE b]]
  /\ update = [r \in ConcInvocations |-> [val |-> ZeroUpdate, err |-> "pending"]]
  /\ pc = [r \in ConcInvocations |-> "parse"]
  /\ calls = [r \in ConcInvocations |-> <<>>]
  /\ log = [r \in ConcInvocations |-> <<>>]
  /\ loop = [r \in ConcInvocations |-> [t |-> 0, found |-> FALSE]]
  /\ trail = [r \in ConcInvocations |-> <<>>]

SpecConc == InitConc /\ [][Next]_vars

(***************************** properties **********************************)
Parsed(r)   == update[r].err = NoErr
Finished(r) == pc[r] \in {"final", "done"}
Last(q)     == q[Len(q)]

\* C1 (variant 2, allow-list gate): an update that was parsed and whose
\* message chat username is neither antonhulikau nor sonicfelidae never
\* causes an outbound call, whatever its text, location and callback are.
C1_AllowListGate ==
  \A r \in DOMAIN pc :
    ( /\ variant = 2
      /\ Parsed(r)
      /\ U(r).Message.Chat.Username \notin {"antonhulikau", "sonicfelidae"} )
    => calls[r] = <<>>

\* a stranger sent /start with a location on a candidate, and the handler
\* returned without a call
C1_Witness ==
  \E r \in DOMAIN pc :
    /\ variant = 2 /\ pc[r] = "done" /\ Parsed(r)
    /\ U(r).Message.Chat.Username = "okalitova"
    /\ U(r).Message.Text = START
    /\ U(r).Message.Location = LOCATIONS[3]
    /\ calls[r] = <<>>

\* character c is the lower-case letter lc or its upper-case form
SameLetter(c, lc) == c = lc \/ \E i \in 1..26 : Upper[i] = c /\ Lower[i] = lc

\* text s spells word w up to the case of its letters
SpellsIgnoringCase(s, w) ==
  Len(s) = Len(w) /\ \A i \in 1..Len(w) : SameLetter(s[i], w[i])

\* the rule the specification selects for an allow-listed update
ExpectedRule(u) ==
  IF u.Message.Text = START THEN 1
  ELSE IF u.Message.Text = UNLOCK THEN 2
  ELSE IF SpellsIgnoringCase(u.Message.Text, SECRET) THEN 3
  ELSE IF u.Message.Location.Latitude > 0 THEN 4
  ELSE 5

\* the rule an outbound call of variant 2 belongs to
RuleOfCall(c) ==
  IF c.op = "sendLocation" THEN 4
  ELSE IF c.text.msg \in {"send me your location", "search has begun"} THEN 1
  ELSE IF c.text.msg = "password?" THEN 2
  ELSE IF c.text.msg \in {"well done, your prize", "she made it"} THEN 3
  ELSE IF c.text.msg \in {"check this place", "she checks %d", "no hints nearby"} THEN 4
  ELSE IF c.text.msg \in {"wrong password", "she entered %s"} THEN 5
  ELSE 0

FiredRules(r) == { RuleOfCall(calls[r][i]) : i \in 1..Len(calls[r]) }

\* C2 (variant 2, rule priority): once an allow-listed update has been
\* dispatched, the calls made belong to exactly one rule, the first that
\* matches in the order /start, /unlock, secret word in any letter case,
\* location with latitude > 0, rejection.
C2_RulePriority ==
  \A r \in DOMAIN pc :
    ( /\ variant = 2 /\ Parsed(r) /\ Finished(r)
      /\ U(r).Message.Chat.Username \in {"antonhulikau", "sonicfelidae"} )
    => FiredRules(r) = { ExpectedRule(U(r)) }

\* AfSiO was sent together with a location on a candidate: only the success
\* rule fired
C2_Witness ==
  \E r \in DOMAIN pc :
    /\ variant = 2 /\ Parsed(r) /\ pc[r] = "done"
    /\ U(r).Message.Chat.Username = "sonicfelidae"
    /\ U(r).Message.Text = <<"A","f","S","i","O">>
    /\ U(r).Message.Location = LOCATIONS[3]
    /\ FiredRules(r) = {3}

\* C3 (variant 2, /start end to end): an update with a non-zero update_id,
\* an allow-listed chat username and text /start yields exactly two calls,
\* both sendMessage, the first to the originating chat and the second to
\* chat 49208041; no edit and no sendLocation.
C3_StartEndToEnd ==
  \A r \in DOMAIN pc :
    ( /\ variant = 2 /\ Finished(r)
      /\ body[r].wellformed /\ body[r].json.UpdateId # 0
      /\ body[r].json.Message.Chat.Username \in {"antonhulikau", "sonicfelidae"}
      /\ body[r].json.Message.Text = START )
    => /\ Len(calls[r]) = 2
       /\ calls[r][1].op = "sendMessage"
       /\ calls[r][1].chat_id = body[r].json.Message.Chat.Id
       /\ calls[r][2].op = "sendMessage"
       /\ calls[r][2].chat_id = 49208041

\* the body {"update_id":1,"message":{"text":"/start","chat":{"id":42,
\* "username":"antonhulikau"}}} was handled to the end
C3_Witness ==
  \E r \in DOMAIN pc :
    /\ variant = 2 /\ pc[r] = "done"
    /\ body[r].wellformed /\ body[r].json.UpdateId = 1
    /\ body[r].json.Message.Chat = [Id |-> 42, Username |-> "antonhulikau"]
    /\ body[r].json.Message.Text = START
    /\ Len(calls[r]) = 2
    /\ calls[r][2].chat_id = 49208041

\* what is posted, without the outcome of the post
Desc(c) == [op |-> c.op, chat_id |-> c.chat_id, message_id |-> c.message_id,
            text |-> c.text, reply_markup |-> c.reply_markup,
            latitude |-> c.latitude, longitude |-> c.longitude]

Descs(cs) == [i \in 1..Len(cs) |-> Desc(cs[i])]

TextTo(chat, text) ==
  [op |-> "sendMessage", chat_id |-> chat, message_id |-> 0, text |-> text,
   reply_markup |-> <<>>, latitude |-> 0, longitude |-> 0]

LocationTo(chat, l) ==
  [op |-> "sendLocation", chat_id |-> chat, message_id |-> 0, text |-> NoText,
   reply_markup |-> <<>>, latitude |-> l.Latitude, longitude |-> l.Longitude]

\* candidate indices (from 0) within the threshold of a probe location
HitsOf == [ probe \in Probes \cup TwoHitProbes |->
            { t \in 0..(Len(LOCATIONS) - 1) :
                Distance(LOCATIONS[t + 1], probe) < 2000 } ]

Hits(probe) == HitsOf[probe]

\* the triples of the candidates from index t on that are in hits
RECURSIVE Triples(_, _, _)
Triples(chat, hits, t) ==
  IF t >= Len(LOCATIONS) THEN <<>>
  ELSE ( IF t \in hits
           THEN << TextTo(chat, Plain("check this place")),
                   TextTo(49208041, [msg |-> "she checks %d", arg |-> Itoa(t)]),
                   LocationTo(chat, LOCATIONS[t + 1]) >>
           ELSE <<>> )
       \o Triples(chat, hits, t + 1)

FanOut(u) ==
  IF Hits(u.Message.Location) = {}
    THEN << TextTo(u.Message.Chat.Id, Plain("no hints nearby")) >>
    ELSE Triples(u.Message.Chat.Id, Hits(u.Message.Location), 0)

\* C4 (variant 2, geofence fan-out): when the location rule has run, the
\* calls are, for every candidate within the threshold in ascending index
\* order, the triple (text to the user, text naming the index to the
\* supervisor, location of the candidate to the user), and one "no hints
\* nearby" text exactly when no candidate is within the threshold; a probe
\* on candidate 2 yields the single triple of index 2.
C4_GeofenceFanOut ==
  \A r \in DOMAIN pc :
    ( /\ variant = 2 /\ Parsed(r) /\ Finished(r)
      /\ U(r).Message.Chat.Username \in {"antonhulikau", "sonicfelidae"}
      /\ ExpectedRule(U(r)) = 4 )
    => /\ Descs(calls[r]) = FanOut(U(r))
       /\ ( \E i \in 1..Len(calls[r]) : calls[r][i].text.msg = "no hints nearby" )
            <=> Hits(U(r).Message.Location) = {}
       /\ U(r).Message.Location = LOCATIONS[3]
            => /\ Len(calls[r]) = 3
               /\ calls[r][2].text.arg = <<"2">>
               /\ calls[r][3].op = "sendLocation"
               /\ calls[r][3].latitude = 48143296
               /\ calls[r][3].longitude = 11596526

\* a probe between candidates 2 and 4 produced both triples, 2 before 4
C4_Witness ==
  \E r \in DOMAIN pc :
    /\ variant = 2 /\ pc[r] = "done" /\ Parsed(r)
    /\ Hits(U(r).Message.Location) = {2, 4}
    /\ Len(calls[r]) = 6
    /\ calls[r][2].text.arg = <<"2">>
    /\ calls[r][5].text.arg = <<"4">>
    /\ calls[r][6].op = "sendLocation"

\* C5 (update parser, both variants): a decoded body whose update_id is 0
\* is rejected with an error whatever its other fields are, and the handler
\* returns without an outbound call; a decoded body with a non-zero
\* update_id is accepted and the Update returned carries its fields.
C5_ParserUpdateId ==
  \A r \in DOMAIN pc :
    update[r].err # "pending" =>
      /\ body[r].json.UpdateId = 0
           => /\ update[r].err # NoErr
              /\ pc[r] = "done"
              /\ calls[r] = <<>>
              /\ Last(log[r]) = "error parsing update"
      /\ (body[r].wellformed /\ body[r].json.UpdateId # 0)
           => /\ update[r].err = NoErr
              /\ update[r].val = body[r].json

\* /start of an allow-listed user with update_id 0 was dropped by variant 2
C5_Witness ==
  \E r \in DOMAIN pc :
    /\ variant = 2 /\ pc[r] = "done"
    /\ body[r].wellformed /\ body[r].json.UpdateId = 0
    /\ body[r].json.Message.Text = START
    /\ body[r].json.Message.Chat.Username = "antonhulikau"
    /\ update[r].err = "invalid update id"
    /\ calls[r] = <<>>

\* C6 (variant 1, round-robin): along a chain of clicks, each feeding the
\* payload of the previous button back, every index lies in [0, N) and the
\* index reached after N steps is the index N steps earlier, N being the
\* length of the phrase list; in particular N steps from the starting index
\* lead back to it.
C6_RoundRobin ==
  \A r \in DOMAIN pc :
    LET n == Len(CELEBRATIONS)
    IN  \A k \in 1..Len(trail[r]) :
          /\ trail[r][k] \in 0..(n - 1)
          /\ (k + n <= Len(trail[r])) => trail[r][k + n] = trail[r][k]

\* three phrases, a chain that started at index 1 and is back at index 1
\* after three clicks
C6_Witness ==
  \E r \in DOMAIN pc :
    /\ variant = 1 /\ Len(CELEBRATIONS) = 3
    /\ Len(trail[r]) >= 4
    /\ trail[r][1] = 1 /\ trail[r][2] = 2 /\ trail[r][3] = 0 /\ trail[r][4] = 1

Terminated(r) == pc[r] \in {"final", "done", "panic"}

\* the update reached the callback branch of variant 1
CallbackCase(r) ==
  /\ variant = 1 /\ Parsed(r) /\ Terminated(r)
  /\ U(r).Message.Text # START
  /\ U(r).CallbackQuerry.From.Username \in {"antonhulikau", "okalitova", "maffina95"}

\* C7 (variant 1, callback with any payload): for an update whose text is
\* not /start and whose callback sender is allow-listed, whatever integer p
\* the payload parses to, the handler does not crash and makes exactly one
\* editMessageText call that shows phrase p and carries the button payload
\* (p + 1) mod N.
C7_AnyPayloadEdits ==
  \A r \in DOMAIN pc :
    CallbackCase(r) =>
      LET p == Atoi(U(r).CallbackQuerry.Data).val
          n == Len(CELEBRATIONS)
      IN  /\ pc[r] # "panic"
          /\ Len(calls[r]) = 1
          /\ calls[r][1].op = "editMessageText"
          /\ calls[r][1].text = Plain(CELEBRATIONS[p + 1])
          /\ calls[r][1].reply_markup = Itoa((p + 1) % n)

\* C8 (variant 1, payload parse default): when the payload of an
\* allow-listed sender does not parse as an integer, index 0 is used: the
\* handler does not crash and edits the message to show phrase 0.
C8_ParseFailureIsZero ==
  \A r \in DOMAIN pc :
    (CallbackCase(r) /\ Atoi(U(r).CallbackQuerry.Data).err # NoErr) =>
      /\ pc[r] # "panic"
      /\ Len(calls[r]) = 1
      /\ calls[r][1].op = "editMessageText"
      /\ calls[r][1].text = Plain(CELEBRATIONS[1])

IsPrefix(a, b) == Len(a) <= Len(b) /\ SubSeq(b, 1, Len(a)) = a

\* the calls the specification lists for an update, as far as the handler
\* gets: nothing before the gate is passed, nothing for an index that is
\* not in the phrase list
Planned(u) ==
  IF variant = 2
    THEN IF u.Message.Chat.Username \notin {"antonhulikau", "sonicfelidae"} THEN <<>>
         ELSE IF ExpectedRule(u) = 1
           THEN << TextTo(u.Message.Chat.Id, Plain("send me your location")),
                   TextTo(49208041, Plain("search has begun")) >>
         ELSE IF ExpectedRule(u) = 2
           THEN << TextTo(u.Message.Chat.Id, Plain("password?")) >>
         ELSE IF ExpectedRule(u) = 3
           THEN << TextTo(u.Message.Chat.Id, Plain("well done, your prize")),
                   TextTo(49208041, Plain("she made it")) >>
         ELSE IF ExpectedRule(u) = 4 THEN FanOut(u)
         ELSE << TextTo(u.Message.Chat.Id, Plain("wrong password")),
                 TextTo(49208041, [msg |-> "she entered %s", arg |-> u.Message.Text]) >>
    ELSE IF u.Message.Text = START
           THEN << [TextTo(u.Message.Chat.Id, Plain("hi, press the button"))
                      EXCEPT !.reply_markup = <<"0">>] >>
         ELSE IF u.CallbackQuerry.From.Username \in {"antonhulikau", "okalitova", "maffina95"}
           THEN LET p == Atoi(u.CallbackQuerry.Data).val
                    n == Len(CELEBRATIONS)
                IN  IF p \in 0..(n - 1)
                      THEN << [op |-> "editMessageText",
                               chat_id |-> u.CallbackQuerry.Message.Chat.Id,
                               message_id |-> u.CallbackQuerry.Message.Id,
                               text |-> Plain(CELEBRATIONS[p + 1]),
                               reply_markup |-> Itoa((p + 1) % n),
                               latitude |-> 0, longitude |-> 0] >>
                      ELSE <<>>
         ELSE <<>>

FailedCalls(r) == { i \in 1..Len(calls[r]) : Failed(calls[r][i].outcome) }
ErrorLines(r)  == { i \in 1..Len(log[r]) :
                      log[r][i] \in {"error when posting",
                                     "error in parsing telegram answer"} }

\* C9 (failure independence): the calls an invocation attempts, and their
\* order, depend on the update alone and not on which of them fail; every
\* failed call leaves an error line in the log and is followed by the
\* remaining calls of its branch; an invocation that attempted a call ends
\* with the final log line.
C9_FailureIndependence ==
  \A r \in DOMAIN pc :
    Parsed(r) =>
      /\ IF Finished(r) THEN Descs(calls[r]) = Planned(U(r))
                        ELSE IsPrefix(Descs(calls[r]), Planned(U(r)))
      /\ Cardinality(FailedCalls(r)) = Cardinality(ErrorLines(r))
      /\ calls[r] # <<>> => pc[r] # "panic"
      /\ (pc[r] = "done" /\ calls[r] # <<>>) => Last(log[r]) = "update new is"

\* two candidates in range, the post of the first text and the read after
\* the first supervisor text failed, and all six calls were made before the
\* final log line
C9_Witness ==
  \E r \in DOMAIN pc :
    /\ variant = 2 /\ pc[r] = "done" /\ Parsed(r)
    /\ Len(calls[r]) = 6
    /\ calls[r][1].outcome.post = "err"
    /\ calls[r][2].outcome.read = "err"
    /\ ~Failed(calls[r][6].outcome)
    /\ Last(log[r]) = "update new is"

\* C10 (outbound sender contract): every sender call is one attempt, and
\* it returns a nil error only together with the response body that was
\* read; a post that failed, or a body that could not be read, comes back
\* as a non-nil error.
C10_SenderContract ==
  \A r \in DOMAIN pc :
    \A i \in 1..Len(calls[r]) :
      LET c == calls[r][i]
      IN  /\ Failed(c.outcome) => c.ret.err # NoErr
          /\ c.ret.err = NoErr => c.ret.body = c.outcome.body

\* invocation r has issued the calls it issues when it runs alone: the
\* list fixed by its own update, or a prefix of it while it is under way
IssuesSoloCalls(r) ==
  update[r].err = NoErr =>
    IF Finished(r) THEN Descs(calls[r]) = Planned(update[r].val)
                   ELSE IsPrefix(Descs(calls[r]), Planned(update[r].val))

\* a step leaves the process-wide data as it is and touches the state of
\* one invocation only
StepIsLocal ==
  /\ variant' = variant
  /\ CELEBRATIONS' = CELEBRATIONS
  /\ DOMAIN pc' = DOMAIN pc
  /\ \E r \in DOMAIN pc :
       \A q \in DOMAIN pc \ {r} :
         /\ body'[q] = body[q] /\ update'[q] = update[q] /\ pc'[q] = pc[q]
         /\ calls'[q] = calls[q] /\ log'[q] = log[q]
         /\ loop'[q] = loop[q] /\ trail'[q] = trail[q]

\* C11 (statelessness under concurrency): handling a request writes no
\* process-wide state (phrase list and handler data stay as they are, the
\* round-robin index is only in the callback payload), and in every
\* interleaving of two concurrent invocations each of them issues the calls
\* it issues when run alone.
C11_StatelessConcurrent ==
  /\ [](\A r \in DOMAIN pc : IssuesSoloCalls(r))
  /\ [][StepIsLocal]_vars

\* two requests from different chats are both inside the range loop, each
\* having sent the triple of candidate 2 to its own chat
C11_Witness ==
  /\ variant = 2 /\ DOMAIN pc = {1, 2}
  /\ pc[1] = "loop" /\ pc[2] = "loop"
  /\ loop[1].t = 3 /\ loop[2].t = 4
  /\ Len(calls[1]) = 3 /\ Len(calls[2]) = 3
  /\ calls[1][1].chat_id = 42 /\ calls[2][1].chat_id = 43
  /\ calls[1][3].chat_id = 42 /\ calls[2][3].chat_id = 43

====
